---- MODULE Spec2Model ----
(***************************************************************************)
(* The cooperative task executor of suika: SimpleAsync (executor.rs), Task *)
(* and its WakerImpl (task.rs) and the delay future (delay.rs).            *)
(*                                                                         *)
(* Threads of the model: one thread per Executor::spawn call, the threads  *)
(* that call SimpleAsync::run (the run loops), any thread calling stop,    *)
(* one timer thread per armed Delay, the wall clock, and the owner of the  *)
(* executor, who may drop it.                                              *)
(***************************************************************************)
EXTENDS Integers, Sequences, FiniteSets, TLC

\* ------------------------------------------------------------------ bounds
\* Most stop() calls made in a run of the program.
MaxStops == 2
\* Longest delay, in clock ticks.
MaxDur == 1

\* The spawn calls of a run of the program: two tasks.
Tasks == {1, 2}
\* Threads that may call SimpleAsync::run on the shared executor (it is Clone
\* and run takes &self).  Runner 2 takes part only in SpecTwo.
Runners == {1, 2}
\* A run loop that holds no task, and a mutex that no thread holds.
NoTask == 0
NoOwner == 0
\* The timer thread of a delay as the owner of a mutex.
TimerThread == Cardinality(Runners) + 1

\* The futures handed to spawn: async blocks that await delay(d) for each d
\* of the sequence in turn and then report (executor.rs tests: one delay,
\* delay(50 * 0) included, and two nested delays).
LongBody == <<MaxDur, MaxDur>>
Bodies == {<<d>> : d \in 0..MaxDur} \cup {LongBody}
Delays == 1..Len(LongBody)
\* The time the delays of a body add up to.
RECURSIVE Total(_)
Total(b) == IF b = <<>> THEN 0 ELSE Head(b) + Total(Tail(b))

VARIABLES
    spawn_pc,       \* per task: position of its Executor::spawn call
    body,           \* per task: the delay durations its future awaits
    active_tasks,   \* SimpleAsync.active_tasks
    scheduled,      \* the ready queue (the mpsc channel of Arc<Task>)
    stop_channel,   \* number of () messages waiting in the stop channel
    pc,             \* per runner: position in run / Task::poll
    cur,            \* per runner: the task it popped
    completed,      \* Task.completed (the flag inside the mutex)
    completed_lock, \* owner of Task.completed's mutex
    future_lock,    \* owner of Task.future's mutex
    future,         \* per task: progress of the wrapped async block
    when,           \* per task and delay: time left until Delay.when
    timer,          \* per task and delay: state of the delay's timer thread
    reports,        \* per task: how often the body sent its identifier
    decs,           \* history: decrements of active_tasks done by polls of the task
    woken,          \* history: a wake of the not completed task awaits a poll
    polled,         \* history: per task, Task::poll was called at least once
    early_stop,     \* history: per runner, stop() had been called when run() began
    last_poll,      \* history: per runner, how its latest Task::poll call ended
    receiver,       \* the executor, and with it the ready queue's Receiver, exists
    stop_calls,     \* history: number of stop() calls made
    stored,         \* per task and delay: Delay.waker, "none" or the handle of
                    \* the latest poll of the delay or that of an older poll
    threads,        \* history: per task and delay, timer threads spawned
    wakes,          \* history: per task and delay, wake calls made by its timers
    slept,          \* history: per task and delay, ticks since the delay was created
    elapsed,        \* history: per task, ticks since its spawn call returned,
                    \* counted up to the time its delays add up to
    last_wake,      \* history: whether run() had returned at the latest wake
                    \* and whether the flag of the woken task was set
    ready_polls,    \* history: polls of a delay made after it had reported Ready
    late_polls      \* history: per running loop, polls begun since the first stop() call

vars == <<spawn_pc, body, active_tasks, scheduled, stop_channel, pc, cur,
          completed, completed_lock, future_lock, future, when, timer,
          reports, decs, woken, polled, early_stop, last_poll, receiver,
          stop_calls, stored, threads, wakes, slept, elapsed, last_wake,
          ready_polls, late_polls>>

\* ----------------------------------------------------------- pure helpers

\* Sender::send on the ready queue: the executor owns the Receiver, so the
\* send succeeds and the message is appended as long as the executor
\* exists; after that it returns Err and nothing is queued.  (SendDropped:
\* a send that loses the message.)
SendDropped(q, t) == q
Send(q, t) == IF receiver THEN Append(q, t) ELSE q

\* Receiver::try_recv on the ready queue (executor.rs 45): the oldest
\* message and what stays behind.  (RecvLast: a queue that hands out its
\* newest message.)
RecvLast(q) == [task |-> q[Len(q)], rest |-> SubSeq(q, 1, Len(q) - 1)]
Recv(q) == [task |-> Head(q), rest |-> Tail(q)]

\* The ready queue has a Sender: SimpleAsync keeps one in its field sender
\* (executor.rs 11, 23), which lives as long as the executor.
\* (ConnectedByTasks: an executor without a Sender of its own, where only
\* queued or polled tasks and sleeping timer threads hold one.)
ConnectedByTasks ==
    \E t \in Tasks :
        \/ \E i \in 1..Len(scheduled) : scheduled[i] = t
        \/ \E r \in Runners : cur[r] = t
        \/ \E k \in Delays : timer[t][k] \in {"sleeping", "waking"}
Connected == receiver

\* WakerImpl::wake (task.rs 56-60): the handle's task is sent, whatever its
\* state.  (WakeUnlessCompleted: a wake that skips a completed task.)
WakeUnlessCompleted(q, t) == IF completed[t] THEN q ELSE Send(q, t)
Wake(q, t) == Send(q, t)

\* Task::poll line 43: on Pending the task sends itself again.
\* (ResendMissing: a poll that leaves the next poll to the wakers;
\* ResendTwice: one that sends two entries.)
ResendMissing(q, t) == q
ResendTwice(q, t) == Append(Append(q, t), t)
Resend(q, t) == Send(q, t)

\* WakerImpl::wake line 58, `let _ = ...send(...)`: the Err of a send to a
\* dropped Receiver is discarded.  (UnwrapsSendError: a wake that unwraps
\* the result.)
UnwrapsSendError == FALSE
IgnoresSendError == TRUE

\* SimpleAsync::stop line 62: stop_sender.send(()) puts one more message
\* into the stop channel.  (SignalFlag: a signal that is set, not counted.)
SignalFlag(ch) == 1
Signal(ch) == ch + 1

\* Delay::poll line 23: self.waker is None on the first poll of the delay.
\* (UnarmedAlways: a poll that never finds the waker stored.)
UnarmedAlways(w) == TRUE
Unarmed(w) == w = "none"

\* Delay::poll line 24, Waker::will_wake: the stored handle is the handle of
\* this poll.  Task::poll builds a handle for every poll (task.rs 35,
\* into_waker), so a handle stored by an earlier poll is another handle.
\* (WillWakeAny: a comparison that takes every stored handle for the handle
\* of this poll, so that the first one stored is kept.)
WillWakeAny(w) == TRUE
WillWake(w) == w = "latest"

\* The timer thread (delay.rs 34-38) sleeps until the deadline and wakes
\* then.  (AwakeUnlessStopped: a timer that a stop() call cancels;
\* AwakeEarly: a timer that does not wait for the deadline.)
AwakeEarly(t, k) == timer[t][k] = "sleeping"
AwakeUnlessStopped(t, k) ==
    timer[t][k] = "sleeping" /\ when[t][k] = 0 /\ stop_calls = 0
Awake(t, k) == timer[t][k] = "sleeping" /\ when[t][k] = 0

\* Mutex::lock blocks while another thread owns the mutex.
\* (MutexNeverBlocks: a lock that excludes nobody.)
MutexNeverBlocks(owner) == TRUE
MutexFree(owner) == owner = NoOwner

\* Task::poll line 31: the early return on a task that has completed.
\* (PollGuardMissing: poll without the check.)
PollGuardMissing(flag) == FALSE
PollGuard(flag) == flag

\* Executor::spawn line 33: *active_tasks += 1.  (IncrementMissing: a spawn
\* that does not count the task.)
IncrementMissing(n) == n
Increment(n) == n + 1

\* Task::poll line 40: *active_tasks -= 1.  (DecrementTwice: the counter
\* lowered twice by one completion.)
DecrementTwice(n) == n - 2
Decrement(n) == n - 1

\* SimpleAsync::run line 38: an iteration of the loop starts with the stop
\* signal.  (LoopHeadPop: a loop that pops before it looks at the signal.)
LoopHeadPop == "try_recv"
LoopHead == "check_stop"

\* Task::poll line 32: the return of a poll that found the flag set leads
\* back to the run loop.  (AfterCompletedPollPanics: the poll panics
\* instead.)
AfterCompletedPollPanics == "panicked"
AfterCompletedPoll == LoopHead

\* SimpleAsync::run lines 39-42: try_recv on the stop channel.
\* (StopIgnored: a loop that never sees the signal.)
StopIgnored(ch) == FALSE
StopObserved(ch) == ch > 0

\* Delay::poll line 45: Instant::now() >= self.when, with left the time
\* from now to when, 0 once the deadline has passed.  (ElapsedStrict: a
\* comparison that the deadline never satisfies; ElapsedEarly: one
\* that is satisfied a tick too soon.)
ElapsedStrict(left) == left < 0
ElapsedEarly(left) == left <= 1
Elapsed(left) == left = 0

\* Time left for delay k of task t as the poll in progress sees it: an armed
\* delay keeps its deadline, a delay created by this poll starts at dur.
\* (LeftFromSpawn: the deadline of a new delay counted from the spawn of
\* its task instead of from the poll that creates it.)
LeftFromSpawn(t, k) ==
    IF timer[t][k] # "none" THEN when[t][k]
    ELSE IF body[t][k] > elapsed[t] THEN body[t][k] - elapsed[t]
    ELSE 0
Left(t, k) == IF timer[t][k] = "none" THEN body[t][k] ELSE when[t][k]

\* The async block resumes at the await it stopped at: the delay after the
\* last one that reported Ready (delay.rs 60, future.await).
\* (ResumeFromStart: a block that starts over with its first await.)
ResumeFromStart(t) == 1
Resume(t) == future[t].idx + 1

\* The outcome of Delay::poll for delay k of task t: the panic of lines
\* 19-21 when the delay has reported Ready (self.completed), else the
\* deadline check of lines 45-50.
DelayPoll(t, k) ==
    IF future[t].idx >= k THEN "panic"
    ELSE IF Elapsed(Left(t, k)) THEN "ready"
    ELSE "pending"

\* The async block polled once (delay.rs 18-51 under executor.rs 93-97):
\* the delays are polled in turn from the one the block resumes at; each one
\* polled for the first time stores the waker and spawns its timer thread,
\* and the block stops at the first delay that does not report Ready.
\* StopAt is that delay, or Len+1 when the block runs to its end.
StopAt(t) ==
    LET n == Len(body[t])
        open == {k \in Resume(t)..n : DelayPoll(t, k) # "ready"}
    IN  IF open = {} THEN n + 1
        ELSE CHOOSE k \in open : \A j \in open : k <= j

\* The owner of the mutex around the waker stored by delay k of task t:
\* the timer thread from its lock to the end of its closure (delay.rs
\* 38-41).  Delay::poll holds it within lines 24-27 only.
WakerLock(t, k) == IF timer[t][k] = "waking" THEN TimerThread ELSE NoOwner

\* WakerImpl::wake takes no lock of the task (task.rs 56-60): it can run
\* whoever owns the completed mutex.  (WakeTakesCompletedLock: a wake that
\* locks Task.completed first.)
WakeTakesCompletedLock(owner) == owner = NoOwner
WakeUnblocked(owner) == TRUE

\* Delay::poll line 24: a poll that reaches an armed delay locks the mutex
\* around the stored waker.
PollUnblocked(t) ==
    IF future[t].done \/ Resume(t) > Len(body[t]) THEN TRUE
    ELSE IF stored[t][Resume(t)] = "none" THEN TRUE
    ELSE MutexFree(WakerLock(t, Resume(t)))

\* -------------------------------------------------------------------- Init

InitCommon ==
    /\ spawn_pc = [t \in Tasks |-> "none"]
    /\ body = [t \in Tasks |-> <<>>]
    /\ active_tasks = 0
    /\ scheduled = <<>>
    /\ stop_channel = 0
    /\ cur = [r \in Runners |-> NoTask]
    /\ completed = [t \in Tasks |-> FALSE]
    /\ completed_lock = [t \in Tasks |-> NoOwner]
    /\ future_lock = [t \in Tasks |-> NoOwner]
    /\ future = [t \in Tasks |-> [idx |-> 0, done |-> FALSE]]
    /\ when = [t \in Tasks |-> [k \in Delays |-> 0]]
    /\ timer = [t \in Tasks |-> [k \in Delays |-> "none"]]
    /\ reports = [t \in Tasks |-> 0]
    /\ decs = [t \in Tasks |-> 0]
    /\ woken = [t \in Tasks |-> FALSE]
    /\ polled = [t \in Tasks |-> FALSE]
    /\ early_stop = [r \in Runners |-> FALSE]
    /\ last_poll = [r \in Runners |-> "none"]
    /\ receiver = TRUE
    /\ stop_calls = 0
    /\ stored = [t \in Tasks |-> [k \in Delays |-> "none"]]
    /\ threads = [t \in Tasks |-> [k \in Delays |-> 0]]
    /\ wakes = [t \in Tasks |-> [k \in Delays |-> 0]]
    /\ slept = [t \in Tasks |-> [k \in Delays |-> 0]]
    /\ elapsed = [t \in Tasks |-> 0]
    /\ last_wake = [returned |-> FALSE, flagged |-> FALSE]
    /\ ready_polls = 0
    /\ late_polls = [r \in Runners |-> 0]

\* One run loop: the supported use.
Init ==
    /\ InitCommon
    /\ pc = [r \in Runners |-> IF r = 1 THEN "idle" ELSE "absent"]

\* Two threads call run on the same executor.
InitTwo ==
    /\ InitCommon
    /\ pc = [r \in Runners |-> "idle"]

\* ----------------------------------------------------------------- spawn

\* Executor::spawn line 33: the increment, under the counter's lock.  Tasks
\* are numbered in the order in which their spawn calls take that lock.
SpawnIncrement(t) ==
    /\ receiver
    /\ spawn_pc[t] = "none"
    /\ \A u \in Tasks : u < t => spawn_pc[u] # "none"
    /\ \E b \in Bodies : body' = [body EXCEPT ![t] = b]
    /\ spawn_pc' = [spawn_pc EXCEPT ![t] = "counted"]
    /\ active_tasks' = Increment(active_tasks)
    /\ UNCHANGED <<scheduled, stop_channel, pc, cur, completed,
                   completed_lock, future_lock, future, when, timer, reports,
                   decs, woken, polled, early_stop, last_poll, receiver,
                   stop_calls, stored, threads, wakes, slept, elapsed,
                   last_wake, ready_polls, late_polls>>

\* Executor::spawn line 34, Task::spawn: the task is built and sent.
SpawnSend(t) ==
    /\ spawn_pc[t] = "counted"
    /\ spawn_pc' = [spawn_pc EXCEPT ![t] = "sent"]
    /\ scheduled' = Send(scheduled, t)
    /\ UNCHANGED <<body, active_tasks, stop_channel, pc, cur, completed,
                   completed_lock, future_lock, future, when, timer, reports,
                   decs, woken, polled, early_stop, last_poll, receiver,
                   stop_calls, stored, threads, wakes, slept, elapsed,
                   last_wake, ready_polls, late_polls>>

\* ------------------------------------------------------------------ stop

\* SimpleAsync::stop: one more () in the stop channel.
Stop ==
    /\ receiver
    /\ stop_calls < MaxStops
    /\ stop_channel' = Signal(stop_channel)
    /\ stop_calls' = stop_calls + 1
    /\ UNCHANGED <<spawn_pc, body, active_tasks, scheduled, pc, cur,
                   completed, completed_lock, future_lock, future, when,
                   timer, reports, decs, woken, polled, early_stop, last_poll,
                   receiver, stored, threads, wakes, slept, elapsed,
                   last_wake, ready_polls, late_polls>>

\* ------------------------------------------------------------------- run

\* Thread r is inside SimpleAsync::run.
Running(r) ==
    pc[r] \notin {"absent", "idle", "stopped", "disconnected", "panicked"}

\* Threads whose run() call has returned: each consumed one stop message.
Returned == {r \in Runners : pc[r] = "stopped"}

\* The executor as a sender finds it: dropped with its Receiver, left by a
\* run loop that returned, told to stop, or live.
Phase ==
    IF ~receiver THEN "dropped"
    ELSE IF Returned # {} THEN "returned"
    ELSE IF stop_calls > 0 THEN "signalled"
    ELSE "live"

\* A thread enters SimpleAsync::run.
RunStart(r) ==
    /\ receiver
    /\ pc[r] = "idle"
    /\ pc' = [pc EXCEPT ![r] = LoopHead]
    /\ early_stop' = [early_stop EXCEPT ![r] = stop_channel > 0]
    /\ UNCHANGED <<spawn_pc, body, active_tasks, scheduled, stop_channel, cur,
                   completed, completed_lock, future_lock, future, when,
                   timer, reports, decs, woken, polled, last_poll, receiver,
                   stop_calls, stored, threads, wakes, slept, elapsed,
                   last_wake, ready_polls, late_polls>>

\* run lines 39-43: a stop message is consumed and the loop breaks, or the
\* loop goes on to the queue.
CheckStop(r) ==
    /\ pc[r] = "check_stop"
    /\ IF StopObserved(stop_channel)
       THEN /\ stop_channel' = stop_channel - 1
            /\ pc' = [pc EXCEPT ![r] = "stopped"]
            /\ late_polls' = [late_polls EXCEPT ![r] = 0]
       ELSE /\ pc' = [pc EXCEPT ![r] = "try_recv"]
            /\ UNCHANGED <<stop_channel, late_polls>>
    /\ UNCHANGED <<spawn_pc, body, active_tasks, scheduled, cur, completed,
                   completed_lock, future_lock, future, when, timer, reports,
                   decs, woken, polled, early_stop, last_poll, receiver,
                   stop_calls, stored, threads, wakes, slept, elapsed,
                   last_wake, ready_polls>>

\* run lines 45-56: try_recv on the ready queue.  Ok(task) calls task.poll();
\* Empty yields; Disconnected, an empty queue without a Sender, breaks.
TryRecv(r) ==
    /\ pc[r] = "try_recv"
    /\ IF scheduled # <<>>
       THEN /\ scheduled' = Recv(scheduled).rest
            /\ cur' = [cur EXCEPT ![r] = Recv(scheduled).task]
            /\ pc' = [pc EXCEPT ![r] = "poll_enter"]
            /\ woken' = [woken EXCEPT ![Recv(scheduled).task] = FALSE]
            /\ polled' = [polled EXCEPT ![Recv(scheduled).task] = TRUE]
       ELSE /\ pc' = [pc EXCEPT ![r] = IF Connected THEN LoopHead
                                        ELSE "disconnected"]
            /\ UNCHANGED <<scheduled, cur, woken, polled>>
    /\ UNCHANGED <<spawn_pc, body, active_tasks, stop_channel, completed,
                   completed_lock, future_lock, future, when, timer, reports,
                   decs, early_stop, last_poll, receiver, stop_calls, stored,
                   threads, wakes, slept, elapsed, last_wake, ready_polls,
                   late_polls>>

\* ------------------------------------------------------------ Task::poll

\* poll lines 30-33: lock completed; return at once if the flag is set
\* (the guard is dropped), otherwise keep the lock.
PollEnter(r) ==
    /\ pc[r] = "poll_enter"
    /\ MutexFree(completed_lock[cur[r]])
    /\ late_polls' = [late_polls EXCEPT ![r] = IF stop_calls > 0 THEN @ + 1 ELSE @]
    /\ IF PollGuard(completed[cur[r]])
       THEN /\ pc' = [pc EXCEPT ![r] = AfterCompletedPoll]
            /\ cur' = [cur EXCEPT ![r] = NoTask]
            /\ last_poll' = [last_poll EXCEPT ![r] = "early_return"]
            /\ UNCHANGED completed_lock
       ELSE /\ pc' = [pc EXCEPT ![r] = "lock_future"]
            /\ completed_lock' = [completed_lock EXCEPT ![cur[r]] = r]
            /\ UNCHANGED <<cur, last_poll>>
    /\ UNCHANGED <<spawn_pc, body, active_tasks, scheduled, stop_channel,
                   completed, future_lock, future, when, timer, reports, decs,
                   woken, polled, early_stop, receiver, stop_calls, stored,
                   threads, wakes, slept, elapsed, last_wake, ready_polls>>

\* poll lines 35-38: the waker and context are built, the future is locked.
LockFuture(r) ==
    /\ pc[r] = "lock_future"
    /\ MutexFree(future_lock[cur[r]])
    /\ future_lock' = [future_lock EXCEPT ![cur[r]] = r]
    /\ pc' = [pc EXCEPT ![r] = "in_future"]
    /\ UNCHANGED <<spawn_pc, body, active_tasks, scheduled, stop_channel, cur,
                   completed, completed_lock, future, when, timer, reports,
                   decs, woken, polled, early_stop, last_poll, receiver,
                   stop_calls, stored, threads, wakes, slept, elapsed,
                   last_wake, ready_polls, late_polls>>

\* poll line 39: future.as_mut().poll(&mut cx).  An async block polled again
\* after it returned Ready panics, and so does a delay (delay.rs 19-21).
FuturePoll(r) ==
    /\ pc[r] = "in_future"
    /\ PollUnblocked(cur[r])
    /\ LET t == cur[r]
           n == Len(body[t])
           s == StopAt(t)
           seen == Resume(t)..(IF s > n THEN n ELSE s)
           \* the handle of this poll is new: every stored one is older
           aged == [k \in Delays |->
                       IF stored[t][k] = "latest" THEN "older" ELSE stored[t][k]]
           kept == [k \in Delays |-> IF WillWake(aged[k]) THEN aged[k] ELSE "latest"]
           arms == {k \in seen : Unarmed(stored[t][k])}
       IN  IF future[t].done
           THEN /\ pc' = [pc EXCEPT ![r] = "panicked"]
                /\ UNCHANGED <<future, when, timer, reports, stored, threads,
                               ready_polls>>
           ELSE IF s <= n /\ DelayPoll(t, s) = "panic"
           THEN /\ pc' = [pc EXCEPT ![r] = "panicked"]
                /\ ready_polls' = ready_polls + 1
                /\ UNCHANGED <<future, when, timer, reports, stored, threads>>
           ELSE /\ UNCHANGED ready_polls
                /\ when' = [when EXCEPT ![t] =
                       [k \in Delays |-> IF k \in seen THEN Left(t, k) ELSE @[k]]]
                /\ timer' = [timer EXCEPT ![t] =
                       [k \in Delays |-> IF k \in arms THEN "sleeping" ELSE @[k]]]
                /\ threads' = [threads EXCEPT ![t] =
                       [k \in Delays |-> IF k \in arms THEN @[k] + 1 ELSE @[k]]]
                /\ stored' = [stored EXCEPT ![t] =
                       [k \in Delays |-> IF k \in arms THEN "latest"
                                         ELSE IF k \in seen THEN kept[k]
                                         ELSE @[k]]]
                /\ future' = [future EXCEPT ![t] = [idx |-> s - 1, done |-> s > n]]
                /\ reports' = [reports EXCEPT ![t] = IF s > n THEN @ + 1 ELSE @]
                /\ pc' = [pc EXCEPT ![r] = IF s > n THEN "ready_dec" ELSE "pending_send"]
    /\ UNCHANGED <<spawn_pc, body, active_tasks, scheduled, stop_channel, cur,
                   completed, completed_lock, future_lock, decs, woken,
                   polled, early_stop, last_poll, receiver, stop_calls, wakes,
                   slept, elapsed, last_wake, late_polls>>

\* poll line 40, Poll::Ready: the counter is locked, decremented, unlocked.
ReadyDec(r) ==
    /\ pc[r] = "ready_dec"
    /\ active_tasks' = Decrement(active_tasks)
    /\ decs' = [decs EXCEPT ![cur[r]] = @ + (active_tasks - active_tasks')]
    /\ pc' = [pc EXCEPT ![r] = "ready_flag"]
    /\ UNCHANGED <<spawn_pc, body, scheduled, stop_channel, cur, completed,
                   completed_lock, future_lock, future, when, timer, reports,
                   woken, polled, early_stop, last_poll, receiver, stop_calls,
                   stored, threads, wakes, slept, elapsed, last_wake,
                   ready_polls, late_polls>>

\* poll line 41 and the return: the flag is set, both guards are dropped.
ReadyFlag(r) ==
    /\ pc[r] = "ready_flag"
    /\ completed' = [completed EXCEPT ![cur[r]] = TRUE]
    /\ completed_lock' = [completed_lock EXCEPT ![cur[r]] = NoOwner]
    /\ future_lock' = [future_lock EXCEPT ![cur[r]] = NoOwner]
    /\ pc' = [pc EXCEPT ![r] = LoopHead]
    /\ cur' = [cur EXCEPT ![r] = NoTask]
    /\ last_poll' = [last_poll EXCEPT ![r] = "ready"]
    /\ UNCHANGED <<spawn_pc, body, active_tasks, scheduled, stop_channel,
                   future, when, timer, reports, decs, woken, polled,
                   early_stop, receiver, stop_calls, stored, threads, wakes,
                   slept, elapsed, last_wake, ready_polls, late_polls>>

\* poll line 43, Poll::Pending: the task sends itself again, then returns.
PendingSend(r) ==
    /\ pc[r] = "pending_send"
    /\ scheduled' = Resend(scheduled, cur[r])
    /\ completed_lock' = [completed_lock EXCEPT ![cur[r]] = NoOwner]
    /\ future_lock' = [future_lock EXCEPT ![cur[r]] = NoOwner]
    /\ pc' = [pc EXCEPT ![r] = LoopHead]
    /\ cur' = [cur EXCEPT ![r] = NoTask]
    /\ last_poll' = [last_poll EXCEPT ![r] = "pending"]
    /\ UNCHANGED <<spawn_pc, body, active_tasks, stop_channel, completed,
                   future, when, timer, reports, decs, woken, polled,
                   early_stop, receiver, stop_calls, stored, threads, wakes,
                   slept, elapsed, last_wake, ready_polls, late_polls>>

\* ---------------------------------------------------------- timer, clock

\* The timer thread of delay k of task t (delay.rs 33-38): after sleeping to
\* the deadline it locks the mutex around the stored waker.
TimerLock(t, k) ==
    /\ Awake(t, k)
    /\ timer' = [timer EXCEPT ![t][k] = "waking"]
    /\ UNCHANGED <<spawn_pc, body, active_tasks, scheduled, stop_channel, pc,
                   cur, completed, completed_lock, future_lock, future, when,
                   reports, decs, woken, polled, early_stop, last_poll,
                   receiver, stop_calls, stored, threads, wakes, slept,
                   elapsed, last_wake, ready_polls, late_polls>>

\* The timer thread goes on (delay.rs 39-42): it calls wake_by_ref,
\* WakerImpl::wake sends the task, and the guard is dropped.
TimerFire(t, k) ==
    /\ timer[t][k] = "waking"
    /\ WakeUnblocked(completed_lock[t])
    /\ timer' = [timer EXCEPT ![t][k] =
                     IF receiver \/ IgnoresSendError THEN "fired" ELSE "panicked"]
    /\ wakes' = [wakes EXCEPT ![t][k] = @ + 1]
    /\ last_wake' = [returned |-> Phase = "returned", flagged |-> completed[t]]
    /\ scheduled' = Wake(scheduled, t)
    /\ woken' = [woken EXCEPT ![t] = @ \/ ~completed[t]]
    /\ UNCHANGED <<spawn_pc, body, active_tasks, stop_channel, pc, cur,
                   completed, completed_lock, future_lock, future, when,
                   reports, decs, polled, early_stop, last_poll, receiver,
                   stop_calls, stored, threads, slept, elapsed, ready_polls,
                   late_polls>>

\* One unit of wall-clock time passes for every pending deadline.
Tick ==
    /\ \E t \in Tasks, k \in Delays : timer[t][k] # "none" /\ when[t][k] > 0
    /\ when' = [t \in Tasks |-> [k \in Delays |->
                   IF when[t][k] > 0 THEN when[t][k] - 1 ELSE 0]]
    /\ slept' = [t \in Tasks |-> [k \in Delays |->
                   IF stored[t][k] # "none" /\ slept[t][k] < MaxDur
                   THEN slept[t][k] + 1 ELSE slept[t][k]]]
    /\ elapsed' = [t \in Tasks |->
                   IF spawn_pc[t] = "sent" /\ elapsed[t] < Total(body[t])
                   THEN elapsed[t] + 1 ELSE elapsed[t]]
    /\ UNCHANGED <<spawn_pc, body, active_tasks, scheduled, stop_channel, pc,
                   cur, completed, completed_lock, future_lock, future, timer,
                   reports, decs, woken, polled, early_stop, last_poll,
                   receiver, stop_calls, stored, threads, wakes, last_wake,
                   ready_polls, late_polls>>

\* A step of the timer thread of delay k of task t.
TimerStep(t, k) == TimerLock(t, k) \/ TimerFire(t, k)

\* ------------------------------------------------------------------ drop

\* The last handle of the executor is dropped: no thread is inside run or
\* spawn (both borrow it).  The Receiver goes with it, and so do the entries
\* waiting in the queue; tasks and timer threads keep their Senders.
DropExecutor ==
    /\ receiver
    /\ \A r \in Runners : ~Running(r)
    /\ \A t \in Tasks : spawn_pc[t] # "counted"
    /\ receiver' = FALSE
    /\ scheduled' = <<>>
    /\ UNCHANGED <<spawn_pc, body, active_tasks, stop_channel, pc, cur,
                   completed, completed_lock, future_lock, future, when,
                   timer, reports, decs, woken, polled, early_stop, last_poll,
                   stop_calls, stored, threads, wakes, slept, elapsed,
                   last_wake, ready_polls, late_polls>>

\* ------------------------------------------------------------------ Next

RunnerStep(r) ==
    \/ CheckStop(r)
    \/ TryRecv(r)
    \/ PollEnter(r)
    \/ LockFuture(r)
    \/ FuturePoll(r)
    \/ ReadyDec(r)
    \/ ReadyFlag(r)
    \/ PendingSend(r)

Next ==
    \/ \E t \in Tasks : SpawnIncrement(t)
    \/ \E t \in Tasks : SpawnSend(t)
    \/ Stop
    \/ \E r \in Runners : RunStart(r)
    \/ \E r \in Runners : RunnerStep(r)
    \/ \E t \in Tasks, k \in Delays : TimerLock(t, k)
    \/ \E t \in Tasks, k \in Delays : TimerFire(t, k)
    \/ Tick
    \/ DropExecutor

Spec == Init /\ [][Next]_vars

\* A timer thread that has locked the stored waker goes on to wake.
TimersGo == \E t \in Tasks, k \in Delays : TimerFire(t, k)

\* The run-loop thread is scheduled: whenever it can take its next step it
\* eventually does, and so is a timer thread that holds a lock.  Nothing
\* obliges a thread to call run, spawn or stop.
ThreadsFair == WF_vars(RunnerStep(1)) /\ WF_vars(TimersGo)
SpecFair == Spec /\ ThreadsFair

\* No stop() call is made and the executor is kept; the run-loop thread is
\* scheduled and time passes.
NextNoStop ==
    \/ \E t \in Tasks : SpawnIncrement(t)
    \/ \E t \in Tasks : SpawnSend(t)
    \/ \E r \in Runners : RunStart(r)
    \/ \E r \in Runners : RunnerStep(r)
    \/ \E t \in Tasks, k \in Delays : TimerLock(t, k)
    \/ \E t \in Tasks, k \in Delays : TimerFire(t, k)
    \/ Tick

SpecLive == Init /\ [][NextNoStop]_vars /\ ThreadsFair /\ WF_vars(Tick)

\* As SpecLive, but nothing is assumed of the clock: a delay may last for
\* ever, and its task stays Pending for ever.
SpecRun == Init /\ [][NextNoStop]_vars /\ ThreadsFair

\* Two threads run the loop on the same executor and no stop() call is made.
SpecTwo == InitTwo /\ [][NextNoStop]_vars

\* ------------------------------------------------------- shared predicates

\* Runner r is inside Task::poll of task t, past the completion check.
PastGuard(r, t) ==
    /\ cur[r] = t
    /\ pc[r] \in {"lock_future", "in_future", "ready_dec", "ready_flag", "pending_send"}

\* Runner r called Task::poll of task t and has not returned.
InPoll(r, t) == cur[r] = t /\ (pc[r] = "poll_enter" \/ PastGuard(r, t))

InQueue(t) == \E i \in 1..Len(scheduled) : scheduled[i] = t

Spawned(t) == spawn_pc[t] # "none"

\* A completing poll of t has decremented the counter (task.rs line 40) and
\* has not yet written the flag (line 41).
InFlagWindow(t) == \E r \in Runners : cur[r] = t /\ pc[r] = "ready_flag"

\* ------------------------------------------------------------------ claims

\* C1 as stated: in every reachable state the active-task counter equals the
\* number of tasks spawned (from the increment on) whose completion flag is
\* not set.
C1_CounterEqualsUnflagged ==
    active_tasks = Cardinality({t \in Tasks : Spawned(t) /\ ~completed[t]})

\* C1 amended: the counter equals the number of spawned tasks whose completing
\* poll has not yet decremented it, that is, whose flag is not set and which
\* are not between the decrement and the write of the flag; it is 0 before
\* any spawn and 0 again once every spawned task has its flag set.
C1_CounterEqualsUndecremented ==
    /\ active_tasks =
         Cardinality({t \in Tasks : Spawned(t) /\ ~completed[t] /\ ~InFlagWindow(t)})
    /\ (\A t \in Tasks : Spawned(t) => completed[t]) => active_tasks = 0

C1_Witness ==
    /\ InFlagWindow(1)
    /\ Spawned(2) /\ ~completed[2] /\ ~InFlagWindow(2)
    /\ active_tasks = 1

\* C2: over a task's life the counter is decremented exactly once on its
\* behalf, by the poll that sets its completion flag, whatever duplicate queue
\* entries and wakes there are: never twice, once when the flag is set, and
\* a decrement without the flag only inside that completing poll.
C2_DecrementedOnce ==
    \A t \in Tasks :
        /\ decs[t] <= 1
        /\ completed[t] => decs[t] = 1
        /\ (decs[t] = 1 /\ ~completed[t]) => InFlagWindow(t)

\* A duplicate entry of a completed task is polled after its timer's wake.
C2_Witness ==
    \E t \in Tasks :
        /\ completed[t] /\ decs[t] = 1
        /\ \E k \in Delays : timer[t][k] = "fired"
        /\ \E r \in Runners : cur[r] = t /\ pc[r] = "poll_enter"
        /\ InQueue(t)


\* C3: while the run loop runs, is scheduled fairly and no stop signal is
\* sent, every wake of a task whose flag is not set is eventually followed by
\* a poll of that task (woken is raised by the wake and cleared when the run
\* loop pops the task to poll it), and every spawned task is eventually
\* polled.
C3_WakeThenPoll ==
    \A t \in Tasks :
        /\ (Running(1) /\ woken[t]) ~> ~woken[t]
        /\ (Running(1) /\ spawn_pc[t] = "sent") ~> polled[t]

\* The timer of a task that is still not completed has fired, and the run
\* loop has popped the task since.
C3_Witness ==
    \E t \in Tasks :
        /\ timer[t][1] = "fired" /\ ~completed[t] /\ ~woken[t]
        /\ cur[1] = t /\ pc[1] = "poll_enter"

\* C4: tasks that each await delays and then report are each reported at
\* most once at any time, and, once spawned with the run loop running and
\* never stopped, eventually exactly once.
C4_AllReportOnce ==
    /\ \A t \in Tasks : [](reports[t] <= 1)
    /\ \A t \in Tasks : (Running(1) /\ spawn_pc[t] = "sent") ~> (reports[t] = 1)

\* Both tasks have reported; the one spawned second completed first.
C4_Witness ==
    /\ \A t \in Tasks : reports[t] = 1
    /\ completed[2] /\ ~completed[1]


\* C5: at most one poll of a task is past the completion check, and so in
\* the wrapped computation, at any instant: a second Task::poll call on the
\* same task from another thread waits until the first has returned.
C5_OnePollAtATime ==
    \A t \in Tasks : \A r1, r2 \in Runners :
        r1 # r2 => ~(PastGuard(r1, t) /\ PastGuard(r2, t))

\* Two run loops popped entries of the same task; one is in the computation,
\* the other waits for the lock.
C5_Witness ==
    \E t \in Tasks :
        /\ cur[1] = t /\ pc[1] = "in_future"
        /\ cur[2] = t /\ pc[2] = "poll_enter"

\* C6: the run loop never pops and polls a task whose completion flag is
\* already set.
C6_NeverPolledAfterCompletion ==
    \A r \in Runners : pc[r] = "poll_enter" => ~completed[cur[r]]

C8_CompletedPollNoEffect ==
    /\ [][\A r \in Runners :
             (pc[r] = "poll_enter" /\ completed[cur[r]] /\ pc'[r] # pc[r])
                 => UNCHANGED <<active_tasks, completed, future, when, timer,
                                reports, decs, scheduled>>]_vars
    /\ [](\A r \in Runners : \A t \in Tasks : PastGuard(r, t) => ~completed[t])

\* Every task is completed, the counter is 0, and the latest poll was one of
\* a completed task.
C8_Witness ==
    /\ last_poll[1] = "early_return"
    /\ \A t \in Tasks : completed[t] /\ decs[t] = 1
    /\ active_tasks = 0

\* C9: once stop() has been called, a run() invocation whose thread is
\* scheduled returns, whether stop() came before run, during it, or several
\* times; and the run loop never ends in a panic.
C9_StopEndsRun ==
    /\ (stop_channel > 0 /\ pc[1] # "idle") ~> (pc[1] = "stopped")
    /\ [](pc[1] # "panicked")

\* run() has returned after stop() was called more than once.
C9_Witness ==
    /\ pc[1] = "stopped"
    /\ stop_channel > 0

\* C10: a run() that begins after stop() was called polls nothing: it only
\* checks the stop signal and returns, no task is popped, no flag is set
\* and the counter still counts every spawned task.
C10_EarlyStopNoPoll ==
    early_stop[1] =>
        /\ pc[1] \in {"check_stop", "stopped"}
        /\ last_poll[1] = "none"
        /\ \A t \in Tasks : ~polled[t] /\ ~completed[t] /\ decs[t] = 0
        /\ active_tasks = Cardinality({t \in Tasks : Spawned(t)})

\* run() returned at once although both tasks were waiting in the queue.
C10_Witness ==
    /\ early_stop[1]
    /\ pc[1] = "stopped"
    /\ Len(scheduled) = Cardinality(Tasks)

\* ---------------------------------------------------------------- C11

\* C11 as stated: stop() is idempotent.  A stop() call made after another
\* stop() call, or after run() has returned, leaves the executor as it was:
\* the stop signal is raised once.
C11_StopIdempotent ==
    [][(stop_calls' # stop_calls /\ (stop_calls > 0 \/ Returned # {}))
           => UNCHANGED <<stop_channel, scheduled, active_tasks>>]_vars

\* C11, amended: every stop() call puts one more message into the stop
\* channel and a returning run() takes one out, so the channel holds as many
\* messages as stop() calls were made, less one for each run() that returned.
C11_StopCountsCalls ==
    stop_channel = stop_calls - Cardinality(Returned)

\* Two stop() calls and a run() that returned: one message is left over.
C11_Witness ==
    /\ stop_calls = 2
    /\ pc[1] = "stopped"
    /\ stop_channel = 1

\* ---------------------------------------------------------------- C12

\* C12 as stated: a wake made after the run loop has stopped is dropped, the
\* task is not added to the ready queue.
C12_LateWakeDropped ==
    [][(wakes' # wakes /\ Returned # {}) => scheduled' = scheduled]_vars

\* C12, amended: a timer that is due can always wake, whatever became of
\* the run loop, and no wake panics; the wake of task t appends t to the
\* ready queue as long as the executor exists, also after run() has
\* returned, and adds nothing once the executor has been dropped.
C12_LateWakeQueuedOrDropped ==
    /\ [](\A t \in Tasks, k \in Delays : (Awake(t, k) \/ timer[t][k] = "waking") => ENABLED TimerStep(t, k))
    /\ [](\A t \in Tasks, k \in Delays : timer[t][k] # "panicked")
    /\ [][\A t \in Tasks, k \in Delays :
            (wakes'[t][k] # wakes[t][k] /\ Phase \in {"returned", "dropped"})
                => scheduled' = IF receiver THEN Append(scheduled, t)
                                ELSE scheduled]_vars

\* A wake made after run() returned has put its task into the queue.
C12_Witness ==
    /\ last_wake.returned
    /\ receiver
    /\ \E t \in Tasks, k \in Delays : timer[t][k] = "fired" /\ InQueue(t)

\* ---------------------------------------------------------------- C13

\* C13: stop() only raises the stop signal.  A stop() call leaves the ready
\* queue, the completion flags, the computations, the counter and the delays
\* with their timer threads as they were, and a timer thread that is due
\* after a stop() call can still fire.
C13_StopOnlySignals ==
    /\ [][stop_calls' # stop_calls
            => /\ stop_channel' = stop_channel + 1
               /\ UNCHANGED <<scheduled, completed, future, active_tasks,
                              timer, when, stored, pc, cur>>]_vars
    /\ [](\A t \in Tasks, k \in Delays :
            (stop_calls > 0 /\ timer[t][k] \in {"sleeping", "waking"}
                            /\ when[t][k] = 0)
                => ENABLED TimerStep(t, k))

\* A timer fired after two stop() calls, the first of which had ended the
\* run loop, and its task was queued.
C13_Witness ==
    /\ last_wake.returned
    /\ \E t \in Tasks, k \in Delays : timer[t][k] = "fired" /\ InQueue(t)
    /\ stop_channel > 0

\* ---------------------------------------------------------------- C14

\* C14: delay(d) never reports Ready before d has elapsed since it was
\* requested.  Delay k of task t has reported Ready once the async block is
\* past it, and slept counts the ticks since the delay was created, however
\* often the run loop polled the delay in between.
C14_NotReadyBeforeDeadline ==
    \A t \in Tasks, k \in Delays :
        (k <= Len(body[t]) /\ future[t].idx >= k) => slept[t][k] >= body[t][k]

\* A delay of the longest duration was polled before its deadline, was
\* polled again and reported Ready when the time had passed.
C14_Witness ==
    \E t \in Tasks :
        /\ body[t] = <<MaxDur>>
        /\ future[t].done
        /\ slept[t][1] = MaxDur
        /\ timer[t][1] = "sleeping"

\* ---------------------------------------------------------------- C15

\* C15: a task that awaits delay(d1) and then delay(d2) does not signal
\* completion earlier than d1 + d2 after it was spawned.
C15_NestedDelaysAddUp ==
    \A t \in Tasks : reports[t] > 0 => elapsed[t] >= Total(body[t])

\* A task with two delays has reported, the time of both having passed.
C15_Witness ==
    \E t \in Tasks :
        /\ body[t] = LongBody
        /\ reports[t] = 1
        /\ elapsed[t] = Total(LongBody)
        /\ timer[t][1] = "fired"

\* ---------------------------------------------------------------- C16

\* C16: no wakeup is lost.  While the executor exists, every task that
\* Executor::spawn has sent and whose completion flag is not set has an
\* entry in the ready queue or is being polled by a run loop.
C16_NoLostWakeup ==
    receiver =>
        \A t \in Tasks :
            (spawn_pc[t] = "sent" /\ ~completed[t])
                => (InQueue(t) \/ \E r \in Runners : InPoll(r, t))

\* A task that was polled before its deadline and returned Pending waits
\* for its timer with its own entry in the queue and no poll in progress.
C16_Witness ==
    \E t \in Tasks :
        /\ receiver
        /\ ~completed[t]
        /\ timer[t][1] = "sleeping" /\ when[t][1] > 0
        /\ InQueue(t)
        /\ \A r \in Runners : cur[r] # t

\* ---------------------------------------------------------------- C17

\* C17: a poll of a task that has not completed pushes exactly one entry
\* for the task if the computation reports Pending and none if it reports
\* Ready; in the Ready case it decrements the counter and sets the flag.
\* Step by step for the thread r inside the poll: the Pending return
\* appends the task once and leaves counter and flag alone, no other step
\* of the poll changes the queue, and the Ready path lowers the counter by
\* one and then sets the flag of the task.
C17_PollPushes ==
    [][\A r \in Runners : \A t \in Tasks :
          (PastGuard(r, t) /\ pc'[r] # pc[r])
              => /\ pc[r] = "pending_send"
                     => /\ scheduled' = Append(scheduled, t)
                        /\ UNCHANGED <<active_tasks, completed>>
                        /\ last_poll'[r] = "pending"
                 /\ pc[r] # "pending_send" => scheduled' = scheduled
                 /\ pc[r] = "in_future" /\ ~future[t].done
                     => pc'[r] = IF future'[t].done THEN "ready_dec"
                                 ELSE "pending_send"
                 /\ pc[r] = "ready_dec"
                     => /\ active_tasks' = active_tasks - 1
                        /\ pc'[r] = "ready_flag"
                 /\ pc[r] = "ready_flag"
                     => /\ completed'[t]
                        /\ last_poll'[r] = "ready"]_vars

\* A task with a delay of the longest duration was polled to Pending and
\* later to Ready: it is counted out and flagged.
C17_Witness ==
    \E t \in Tasks :
        /\ body[t] = <<MaxDur>>
        /\ completed[t]
        /\ decs[t] = 1
        /\ last_poll[1] = "ready"

\* ---------------------------------------------------------------- C18

\* Entries of task t waiting in the ready queue.
Entries(t) == Cardinality({i \in 1..Len(scheduled) : scheduled[i] = t})

\* C18: each invocation of a wake handle of a task pushes exactly one entry
\* for that task, whether the task is pending, being polled or completed,
\* and whichever poll built the handle that the delay has stored; nothing
\* is de-duplicated.  (The ready queue exists: the executor has not been
\* dropped.)
C18_WakePushesOne ==
    [][\A t \in Tasks, k \in Delays :
          (wakes'[t][k] # wakes[t][k] /\ receiver)
              => /\ wakes'[t][k] = wakes[t][k] + 1
                 /\ scheduled' = Append(scheduled, t)
                 /\ Entries(t)' = Entries(t) + 1]_vars

\* Both timers of a completed task have fired, the later one after the flag
\* was set, and two entries of the task wait in the queue.
C18_Witness ==
    \E t \in Tasks :
        /\ completed[t]
        /\ wakes[t][1] = 1 /\ wakes[t][2] = 1
        /\ last_wake.flagged
        /\ Entries(t) >= 2

\* ---------------------------------------------------------------- C19

\* C19: Executor::spawn increments the counter before the task is visible
\* in the ready queue, so no task completes before its own increment: a
\* task that is queued or held by a run loop has been counted, the counter
\* is at least 1 whenever a completing poll is about to decrement it, and
\* it is never below 0.
C19_CountedBeforeVisible ==
    /\ active_tasks >= 0
    /\ \A r \in Runners : pc[r] = "ready_dec" => active_tasks >= 1
    /\ \A t \in Tasks :
          (InQueue(t) \/ \E r \in Runners : cur[r] = t)
              => /\ spawn_pc[t] = "sent"
                 /\ active_tasks + decs[t] >= 1

\* The only task spawned so far is about to be counted out by its
\* completing poll: the counter is 1.
C19_Witness ==
    /\ pc[1] = "ready_dec"
    /\ active_tasks = 1
    /\ \A t \in Tasks : t # cur[1] => spawn_pc[t] = "none"

\* ---------------------------------------------------------------- C20

\* The state of delay k of task t: 0 Unarmed (no waker stored), 1 Armed,
\* 2 Ready (the async block is past it).
DelayState(t, k) ==
    IF future[t].idx >= k THEN 2
    ELSE IF stored[t][k] # "none" THEN 1
    ELSE 0

\* C20: for every delay exactly one timer thread is spawned, on its first
\* poll, however often it is polled and with whatever handles; that timer
\* invokes a wake handle at most once; the state of the delay only moves
\* forward, Unarmed to Armed to Ready.
C20_OneTimerPerDelay ==
    /\ [](\A t \in Tasks, k \in Delays :
            /\ threads[t][k] = IF stored[t][k] = "none" THEN 0 ELSE 1
            /\ wakes[t][k] <= threads[t][k]
            /\ DelayState(t, k) > 0 => threads[t][k] = 1)
    /\ [][\A t \in Tasks, k \in Delays :
            /\ DelayState(t, k)' >= DelayState(t, k)
            /\ threads'[t][k] # threads[t][k] => stored[t][k] = "none"]_vars

\* A delay of the longest duration was polled more than once, each time
\* with a new handle; it has one timer thread, which has fired, and it is
\* Ready.
C20_Witness ==
    \E t \in Tasks :
        /\ body[t] = <<MaxDur>>
        /\ DelayState(t, 1) = 2
        /\ threads[t][1] = 1
        /\ wakes[t][1] = 1
        /\ stored[t][1] = "latest"

\* ---------------------------------------------------------------- C21

\* C21: when the deadline of a delay has already passed at its first poll,
\* that poll reports Ready and no timer thread is ever spawned for the
\* delay.  A delay is created by the poll that polls it first, so its
\* deadline has passed at that poll exactly when its duration is 0.
C21_NoTimerWhenPassed ==
    \A t \in Tasks, k \in Delays :
        (k <= Len(body[t]) /\ body[t][k] = 0 /\ stored[t][k] # "none")
            => /\ DelayState(t, k) = 2
               /\ threads[t][k] = 0

\* ---------------------------------------------------------------- C22

\* C22: polling a delay that has reported Ready is a panic, never Ready or
\* Pending; and no execution of spawn and run polls a delay after it
\* reported Ready.
C22_ReadyDelayNotPolled ==
    /\ \A t \in Tasks, k \in Delays :
          (k <= Len(body[t]) /\ DelayState(t, k) = 2) => DelayPoll(t, k) = "panic"
    /\ ready_polls = 0
    /\ \A r \in Runners : pc[r] # "panicked"

\* A task with two delays ran to its end: it was polled again after its
\* first delay had reported Ready, and those polls went to the second.
C22_Witness ==
    \E t \in Tasks :
        /\ body[t] = LongBody
        /\ future[t].done
        /\ DelayState(t, 1) = 2
        /\ slept[t][2] = MaxDur
        /\ ready_polls = 0

\* ---------------------------------------------------------------- C23

\* C23: the run loop checks the stop signal before every pop and polls at
\* most one task between two checks.  Once a stop() call has returned, a
\* run loop begins at most one more poll before it returns; the loop
\* reaches a pop only from a check, and at a check that finds the signal it
\* returns and leaves the queue alone, however many entries are waiting.
C23_StopBeforePop ==
    /\ [](\A r \in Runners : late_polls[r] <= 1)
    /\ [][\A r \in Runners :
            /\ (pc'[r] = "try_recv" /\ pc[r] # "try_recv") => pc[r] = "check_stop"
            /\ (pc[r] = "check_stop" /\ stop_channel > 0 /\ pc'[r] # pc[r])
                   => /\ pc'[r] = "stopped"
                      /\ scheduled' = scheduled]_vars

\* The run loop began one poll after stop() was called and is at its next
\* check, where it finds the signal, with entries still in the queue.
C23_Witness ==
    /\ pc[1] = "check_stop"
    /\ stop_channel > 0
    /\ late_polls[1] = 1
    /\ Len(scheduled) >= 2

\* ---------------------------------------------------------------- C24

\* C24: the run loop polls the entries of the ready queue in the order in
\* which they were pushed.  Every change of the queue made while the
\* executor exists appends one entry at the end or removes the first entry,
\* which the run loop that removed it polls next; so a task that was sent
\* again after a Pending poll waits behind the entries that were there, and
\* every task queued while the run loop runs is popped in the end, whatever
\* the others do.
C24_Fifo ==
    /\ [][(scheduled' # scheduled /\ receiver')
            => \/ \E t \in Tasks : scheduled' = Append(scheduled, t)
               \/ /\ scheduled # <<>>
                  /\ scheduled' = Tail(scheduled)
                  /\ \E r \in Runners :
                        /\ pc[r] = "try_recv" /\ pc'[r] = "poll_enter"
                        /\ cur'[r] = Head(scheduled)]_vars
    /\ \A t \in Tasks :
          (InQueue(t) /\ Running(1))
              ~> (\E r \in Runners : cur[r] = t /\ pc[r] = "poll_enter")

\* A task was polled, returned Pending and was sent again; the run loop has
\* moved on to the other task while the first waits in the queue.
C24_Witness ==
    \E t \in Tasks, u \in Tasks :
        /\ t # u
        /\ last_poll[1] = "pending"
        /\ polled[t] /\ ~completed[t] /\ InQueue(t)
        /\ timer[u][1] = "none"
        /\ cur[1] = u /\ pc[1] = "poll_enter"

\* ---------------------------------------------------------------- C25

\* C25: run() returns only after consuming a stop signal.  No run loop
\* leaves by the Disconnected break, the step that ends a run loop is the
\* check that takes a message out of the stop channel, and the executor and
\* its Sender exist as long as a thread is inside run(); a loop with an
\* empty queue and all tasks completed goes on.
C25_ReturnsOnlyOnStop ==
    /\ [](\A r \in Runners :
            /\ pc[r] # "disconnected"
            /\ Running(r) => Connected
            /\ pc[r] = "stopped" => stop_calls > stop_channel)
    /\ [][\A r \in Runners :
            (Running(r) /\ ~Running(r)')
                => /\ pc[r] = "check_stop"
                   /\ stop_channel' = stop_channel - 1]_vars

\* Every task has completed, every timer has fired, the queue has been
\* emptied and nobody has called stop(): the run loop is still looping.
C25_Witness ==
    /\ \A t \in Tasks : completed[t]
    /\ \A t \in Tasks, k \in Delays : timer[t][k] \in {"none", "fired"}
    /\ scheduled = <<>>
    /\ stop_calls = 0
    /\ pc[1] = "check_stop"
    /\ last_poll[1] = "early_return"

\* ---------------------------------------------------------------- C26

RECURSIVE SumPairs(_, _)
SumPairs(f, S) ==
    IF S = {} THEN 0
    ELSE LET p == CHOOSE q \in S : TRUE
         IN  f[p[1]][p[2]] + SumPairs(f, S \ {p})

\* Spawn calls that have sent their task, wake invocations made and timer
\* threads armed so far.
SentCount == Cardinality({t \in Tasks : spawn_pc[t] = "sent"})
WakeCount == SumPairs(wakes, Tasks \X Delays)
ArmedCount == SumPairs(threads, Tasks \X Delays)

\* The entries of the queue and the entries that run loops have popped and
\* may still push back.
Load == Len(scheduled) + Cardinality({r \in Runners : cur[r] # NoTask})

\* C26: an iteration of the run loop never makes the ready queue longer: it
\* pops one entry and pushes at most one, so no step of a run loop raises
\* the number of entries queued or held by run loops.  That number grows
\* only by one, through a spawn or a wake, so the queue is never longer
\* than the spawn calls plus the wake invocations made so far, nor than
\* the tasks plus the armed delays.
C26_QueueBounded ==
    /\ [](/\ Load <= SentCount + WakeCount
          /\ Load <= SentCount + ArmedCount)
    /\ [][/\ (\E r \in Runners : pc'[r] # pc[r]) => Load' <= Load
          /\ Load' > Load
               => /\ Load' = Load + 1
                  /\ SentCount' = SentCount + 1 \/ WakeCount' = WakeCount + 1]_vars

\* One task was polled to Pending and woken by its timer, the other has not
\* been polled: three entries wait, as many as spawn calls and wakes.
C26_Witness ==
    /\ SentCount = Cardinality(Tasks)
    /\ WakeCount = 1
    /\ Len(scheduled) = SentCount + WakeCount

\* ---------------------------------------------------------------- C27

\* Every task of the run has completed and every timer thread has fired.
Quiet ==
    /\ \A t \in Tasks : completed[t]
    /\ \A t \in Tasks, k \in Delays : timer[t][k] \in {"none", "fired"}

\* C27: if the run loop is not stopped, then after all tasks have completed
\* and all timer threads have fired the ready queue becomes empty and stays
\* empty: the stale entries are popped and none is sent again.
C27_QueueDrains ==
    (Quiet /\ Running(1)) ~> [](scheduled = <<>>)

\* Both tasks have completed, the timers have fired, and the run loop has
\* popped the last stale entry.
C27_Witness ==
    /\ Quiet
    /\ WakeCount >= Cardinality(Tasks)
    /\ scheduled = <<>>
    /\ Running(1)
    /\ last_poll[1] = "early_return"

\* ---------------------------------------------------------------- C28

\* C28: the timer thread of a delay invokes the wake handle only at or
\* after the deadline, so a poll of the delay that starts after the wake
\* reports Ready, and the task needs no second wake for that delay.  The
\* wake step finds the deadline passed; once a delay has been woken, the
\* time since its creation is at least its duration and Delay::poll no
\* longer returns Pending for it.
C28_WakeAfterDeadline ==
    /\ [](\A t \in Tasks, k \in Delays :
            wakes[t][k] > 0 => /\ slept[t][k] >= body[t][k]
                               /\ DelayPoll(t, k) # "pending")
    /\ [][\A t \in Tasks, k \in Delays :
            wakes'[t][k] # wakes[t][k] => when[t][k] = 0]_vars

\* The timer of a delay of the longest duration has fired, the delay has
\* not been polled since, and the entry pushed by the wake is waiting.
C28_Witness ==
    \E t \in Tasks :
        /\ body[t] = <<MaxDur>>
        /\ wakes[t][1] = 1
        /\ DelayState(t, 1) = 1
        /\ InQueue(t)
        /\ DelayPoll(t, 1) = "ready"

\* ---------------------------------------------------------------- C29

\* Runner r waits in Delay::poll for the mutex around the stored waker.
WaitsForWaker(r) == pc[r] = "in_future" /\ ~PollUnblocked(cur[r])

\* C29: no thread waits for ever for a lock.  With one run loop, a run loop
\* that has not returned can take its next step, or it waits in the poll of
\* a delay for the mutex around the stored waker, and the timer thread that
\* owns that mutex can go on; a timer thread that owns the mutex can always
\* wake, and a spawn call that has counted its task can always send it.
\* When the threads are scheduled, the waiting poll goes on.
C29_NoThreadWaitsForever ==
    /\ [](\A r \in Runners : Running(r) =>
            \/ ENABLED RunnerStep(r)
            \/ /\ WaitsForWaker(r)
               /\ WakerLock(cur[r], Resume(cur[r])) = TimerThread
               /\ ENABLED TimerFire(cur[r], Resume(cur[r])))
    /\ [](\A t \in Tasks, k \in Delays :
            WakerLock(t, k) = TimerThread => ENABLED TimerFire(t, k))
    /\ [](\A t \in Tasks : spawn_pc[t] = "counted" => ENABLED SpawnSend(t))
    /\ WaitsForWaker(1) ~> ~WaitsForWaker(1)

\* The run loop, holding both locks of a task, waits in the poll of the
\* task's delay for the mutex that the delay's timer thread has locked.
C29_Witness ==
    /\ WaitsForWaker(1)
    /\ completed_lock[cur[1]] = 1 /\ future_lock[cur[1]] = 1
    /\ timer[cur[1]][Resume(cur[1])] = "waking"

\* ---------------------------------------------------------------- C30

\* C30: after every poll of an armed delay that has not completed, the wake
\* handle stored for its timer thread is the handle of that poll: a poll
\* that finds the handle of an older poll replaces it.  So the handle that
\* a timer thread invokes is the one of the latest poll of its delay, and it
\* sends the task that made that poll.
C30_StoredHandleIsLatest ==
    /\ [](\A t \in Tasks, k \in Delays :
            timer[t][k] # "none" => stored[t][k] = "latest")
    /\ [][\A r \in Runners, k \in Delays :
            (pc[r] = "in_future" /\ pc'[r] = "pending_send"
                                 /\ k = future'[cur[r]].idx + 1)
                => stored'[cur[r]][k] = "latest"]_vars
    /\ [][\A t \in Tasks, k \in Delays :
            wakes'[t][k] # wakes[t][k]
                => /\ stored[t][k] = "latest"
                   /\ receiver => scheduled' = Append(scheduled, t)]_vars

\* The only task spawned awaits one delay of the longest duration; its first
\* poll ended Pending, and a second poll has found the delay armed and still
\* pending and has left its own handle with the one timer thread.
C30_Witness ==
    /\ spawn_pc[2] = "none" /\ body[1] = <<MaxDur>>
    /\ last_poll[1] = "pending"
    /\ cur[1] = 1 /\ pc[1] = "pending_send"
    /\ timer[1][1] = "sleeping" /\ when[1][1] > 0
    /\ stored[1][1] = "latest" /\ threads[1][1] = 1

====
